---- MODULE Spec2Model ----
(***************************************************************************)
(* Model of jdev-cli: the file operations of src/src/functions.rs and the  *)
(* websocket dispatcher loop of src/src/socket.rs with its display step    *)
(* (src/src/print.rs).                                                     *)
(*                                                                         *)
(* A string is a sequence of one-character strings.  An Option<T> is a     *)
(* sequence of length 0 (None) or 1 (Some).  The file tree is a function   *)
(* whose domain is the set of paths that exist.                            *)
(***************************************************************************)
EXTENDS Integers, Sequences, FiniteSets, TLC

\* ------------------------------------------------------------------------
\* Bounds of the model
\* ------------------------------------------------------------------------
\* longest content of a file in the initial file tree
MaxInitLen == 1
\* longest `content` argument of a request
MaxContentLen == 1
\* largest start_line / end_line argument of a request
MaxLine == 3
\* total number of characters the file tree may hold
MaxDisk == 4

NL == "\n"
CR == "\r"
Chars == {"a", NL, CR}
Paths == {"f", "g"}

StringsUpTo(n) == UNION {[1..k -> Chars] : k \in 0..n}

None == <<>>
Some(x) == <<x>>

\* ------------------------------------------------------------------------
\* Pure functions
\* ------------------------------------------------------------------------
\* position of the first line feed of s, 0 when there is none
RECURSIVE FirstNL(_, _)
FirstNL(s, i) ==
    IF i > Len(s) THEN 0
    ELSE IF s[i] = NL THEN i
    ELSE FirstNL(s, i + 1)

\* str::split_inclusive('\n'): the pieces keep their terminating line feed;
\* the empty string has no piece and a final line feed opens no new piece
RECURSIVE SplitInclusive(_)
SplitInclusive(s) ==
    IF s = <<>> THEN <<>>
    ELSE LET k == FirstNL(s, 1) IN
         IF k = 0 THEN <<s>>
         ELSE <<SubSeq(s, 1, k)>> \o SplitInclusive(SubSeq(s, k + 1, Len(s)))

\* one piece without its "\n" or "\r\n" terminator; a piece that has no line
\* feed (the last one) is returned as it is, a final bare "\r" included
StripTerminator(piece) ==
    IF piece # <<>> /\ piece[Len(piece)] = NL
    THEN LET l == SubSeq(piece, 1, Len(piece) - 1) IN
         IF l # <<>> /\ l[Len(l)] = CR THEN SubSeq(l, 1, Len(l) - 1) ELSE l
    ELSE piece

\* str::lines()
Lines(s) ==
    LET ps == SplitInclusive(s) IN [i \in 1..Len(ps) |-> StripTerminator(ps[i])]

\* [&str]::join("\n")
RECURSIVE Join(_)
Join(ls) ==
    IF ls = <<>> THEN <<>>
    ELSE IF Len(ls) = 1 THEN ls[1]
    ELSE ls[1] \o <<NL>> \o Join(Tail(ls))

\* Vec::splice(range_start..range_end, repl) over 0-based indices: the
\* elements at indices range_start <= i < range_end are drained and repl
\* takes their place.  It panics when the range is not within the vector.
SplicePanics(v, range_start, range_end) ==
    range_start > range_end \/ range_end > Len(v)

Splice(v, range_start, range_end, repl) ==
    LET kept_front == [i \in 1..range_start |-> v[i]]
        kept_back  == [i \in 1..(Len(v) - range_end) |-> v[range_end + i]]
    IN  kept_front \o repl \o kept_back

\* ------------------------------------------------------------------------
\* The file tree
\* ------------------------------------------------------------------------
Exists(fsys, p) == p \in DOMAIN fsys

WriteTo(fsys, p, c) ==
    [q \in (DOMAIN fsys) \cup {p} |-> IF q = p THEN c ELSE fsys[q]]

Remove(fsys, p) == [q \in (DOMAIN fsys) \ {p} |-> fsys[q]]

RECURSIVE SumLen(_, _)
SumLen(fsys, ps) ==
    IF ps = {} THEN 0
    ELSE LET p == CHOOSE q \in ps : TRUE IN Len(fsys[p]) + SumLen(fsys, ps \ {p})

DiskUsage(fsys) == SumLen(fsys, DOMAIN fsys)

\* ------------------------------------------------------------------------
\* Requests and results
\* ------------------------------------------------------------------------
\* FunctionCall with its arguments; `via` tells whether the call came in
\* through the websocket loop or was made on Functions directly
Call(function, via, path, content, mode, start_line, end_line, destination_path) ==
    [function |-> function, via |-> via, path |-> path, content |-> content,
     mode |-> mode, start_line |-> start_line, end_line |-> end_line,
     destination_path |-> destination_path]

NoCall == Call("none", "none", "", <<>>, "", 0, None, "")

\* FunctionResult: Success(FunctionReturnData) | Error(String)
Result(status, variant, message, text, old_contents, new_contents, files) ==
    [status |-> status, variant |-> variant, message |-> message, text |-> text,
     old_contents |-> old_contents, new_contents |-> new_contents, files |-> files]

NoResult == Result("none", "none", "", None, <<>>, <<>>, {})

Error(message) == Result("error", "none", message, None, <<>>, <<>>, {})

SuccessNull == Result("success", "Null", "", None, <<>>, <<>>, {})

SuccessGetAllFiles(files) == Result("success", "GetAllFiles", "", None, <<>>, <<>>, files)

SuccessReadFile(text) == Result("success", "ReadFile", "", Some(text), <<>>, <<>>, {})

SuccessWriteFile(prior) == Result("success", "WriteFile", "", prior, <<>>, <<>>, {})

\* variant: the two fields of ModifyFileResult filled the wrong way round
SuccessModifyFileSwapped(old_contents, new_contents) ==
    Result("success", "ModifyFile", "", None, new_contents, old_contents, {})

SuccessModifyFile(old_contents, new_contents) ==
    Result("success", "ModifyFile", "", None, old_contents, new_contents, {})

\* what a function of Functions hands back: a Result and the file tree it
\* leaves
Returned(res, fsys) == [kind |-> "returned", result |-> res, fs |-> fsys]

\* ------------------------------------------------------------------------
\* Functions (src/src/functions.rs)
\* ------------------------------------------------------------------------
get_all_files(fsys) == Returned(SuccessGetAllFiles(DOMAIN fsys), fsys)

\* variant: the existence check is missing
create_file_unchecked(fsys, args) ==
    Returned(SuccessNull, WriteTo(fsys, args.path, args.content))

create_file(fsys, args) ==
    IF Exists(fsys, args.path)
    THEN Returned(Error("File already exists"), fsys)
    ELSE Returned(SuccessNull, WriteTo(fsys, args.path, args.content))

read_file(fsys, path) ==
    IF Exists(fsys, path)
    THEN Returned(SuccessReadFile(fsys[path]), fsys)
    ELSE Returned(Error("No such file or directory"), fsys)

\* variant: a missing file is not an error
delete_file_lenient(fsys, args) == Returned(SuccessNull, Remove(fsys, args.path))

delete_file(fsys, args) ==
    IF ~Exists(fsys, args.path)
    THEN Returned(Error("File does not exist"), fsys)
    ELSE Returned(SuccessNull, Remove(fsys, args.path))

\* str::split('\n'): a final line feed, and the empty string, leave an
\* empty last segment
RECURSIVE SplitNL(_)
SplitNL(s) ==
    LET k == FirstNL(s, 1) IN
    IF k = 0 THEN <<s>>
    ELSE <<SubSeq(s, 1, k - 1)>> \o SplitNL(SubSeq(s, k + 1, Len(s)))

\* variant: the content split with split('\n') instead of lines()
ContentLinesSplit(content) == SplitNL(content)

\* args.content.lines().collect()
ContentLines(content) == Lines(content)

\* variant: a missing end_line defaults to start_line
RequiredEndLineDefaulted(args) ==
    IF args.end_line = None THEN Some(args.start_line) ELSE args.end_line

\* args.end_line.ok_or(..)?: None makes modify_file return the error
RequiredEndLine(args) == args.end_line

\* variant: the conversion to a 0-based index is forgotten
InsertRangeOneBased(start_line) == [start |-> start_line, end |-> start_line]

\* the 0-based range handed to splice in Insert mode
InsertRange(start_line) == [start |-> start_line - 1, end |-> start_line - 1]

\* variant: end_line taken as exclusive, as the doc comment words it
ReplaceRangeExclusiveEnd(start_line, end_line) ==
    [start |-> start_line - 1, end |-> end_line - 1]

\* the 0-based range handed to splice in Replace mode
ReplaceRange(start_line, end_line) == [start |-> start_line - 1, end |-> end_line]

\* variant: the trailing line feed is left out
ReconstructUnterminated(file_lines) == Join(file_lines)

\* file_lines.join("\n") + "\n"
Reconstruct(file_lines) == Join(file_lines) \o <<NL>>

\* modify_file up to the point where it opens the file for writing: the
\* existence check, the read, the two lines() and the splice.  kind is
\* "error" (an early return), "panic" (the index arithmetic or the splice
\* panics) or "ready"; file_lines is then the vector after the splice and
\* new_contents what the write will put in the file.
Spliced(kind, message, old_contents, file_lines, new_contents) ==
    [kind |-> kind, message |-> message, old_contents |-> old_contents,
     file_lines |-> file_lines, new_contents |-> new_contents]

NoLocals == Spliced("none", "", <<>>, <<>>, <<>>)

\* the splice of one range and the content rebuilt from it.  start_line - 1
\* on a usize with start_line = 0 panics (overflow checks on) or wraps to
\* usize::MAX, which is past the end of every vector, so that the splice
\* panics: either way the call panics when the range starts below 0
SpliceRange(old_contents, range, new_lines) ==
    LET file_lines == Lines(old_contents) IN
    IF range.start < 0 \/ SplicePanics(file_lines, range.start, range.end)
    THEN Spliced("panic", "", old_contents, <<>>, <<>>)
    ELSE LET spliced == Splice(file_lines, range.start, range.end, new_lines)
         IN  Spliced("ready", "", old_contents, spliced, Reconstruct(spliced))

modify_file_splice(fsys, args) ==
    IF ~Exists(fsys, args.path)
    THEN Spliced("error", "File does not exist", <<>>, <<>>, <<>>)
    ELSE
    LET old_contents == fsys[args.path]
        new_lines    == ContentLines(args.content)
    IN  IF args.mode = "insert"
        THEN SpliceRange(old_contents, InsertRange(args.start_line), new_lines)
        ELSE LET end_line == RequiredEndLine(args) IN
             IF end_line = None
             THEN Spliced("error", "end_line must be provided when using replace mode",
                          old_contents, <<>>, <<>>)
             ELSE SpliceRange(old_contents, ReplaceRange(args.start_line, end_line[1]),
                              new_lines)

\* write_file and move_file are called by the loop but are not part of
\* functions.rs as it stands; they follow their described contract
write_file(fsys, args) ==
    Returned(SuccessWriteFile(IF Exists(fsys, args.path) THEN Some(fsys[args.path]) ELSE None),
             WriteTo(fsys, args.path, args.content))

move_file(fsys, args) ==
    IF ~Exists(fsys, args.path)
    THEN Returned(Error("Source file does not exist"), fsys)
    ELSE IF Exists(fsys, args.destination_path)
    THEN Returned(Error("Destination file already exists"), fsys)
    ELSE Returned(SuccessNull,
                  WriteTo(Remove(fsys, args.path), args.destination_path, fsys[args.path]))

\* ------------------------------------------------------------------------
\* print_function_execution (src/src/print.rs): TRUE when the pair of call
\* and result falls through to the final panicking arm of the match
\* ------------------------------------------------------------------------
print_function_execution_panics(c, r) ==
    /\ r.status = "success"
    /\ ~ \/ c.function = "GetAllFiles" /\ r.variant = "GetAllFiles"
         \/ c.function = "CreateFile"
         \/ c.function = "ReadFile" /\ r.variant = "ReadFile"
         \/ c.function = "DeleteFile"
         \/ c.function = "ModifyFile" /\ r.variant = "ModifyFile"
         \/ c.function = "PrintMessage"

\* ------------------------------------------------------------------------
\* modify_file of src/src/tools.rs, which returns the list of line changes
\* ------------------------------------------------------------------------
LineModification(line, content, is_deletion) ==
    [line |-> line, content |-> content, is_deletion |-> is_deletion]

saturating_sub(n, m) == IF n >= m THEN n - m ELSE 0

\* Vec::insert(index, element): the caller has checked index <= Len(v)
VecInsert(v, index, element) ==
    SubSeq(v, 1, index) \o <<element>> \o SubSeq(v, index + 1, Len(v))

\* file_content.insert(insert_index + i, line) for each line of the content
RECURSIVE InsertEach(_, _, _)
InsertEach(file_content, insert_index, content_lines) ==
    IF content_lines = <<>> THEN file_content
    ELSE InsertEach(VecInsert(file_content, insert_index, Head(content_lines)),
                    insert_index + 1, Tail(content_lines))

\* the deletions recorded for i in replace_start..replace_end
RecordDeletions(file_content, replace_start, replace_end) ==
    LET present == {i \in replace_start..(replace_end - 1) : i < Len(file_content)}
        n       == Cardinality(present)
    IN  [k \in 1..n |->
            LineModification(replace_start + k, file_content[replace_start + k], TRUE)]

\* variant: the 0-based index is recorded as the line
InsertionLineZeroBased(first_index, i) == first_index + i

\* the line recorded for the i-th (0-based) line of the content
InsertionLine(first_index, i) == first_index + i + 1

RecordInsertions(first_index, content_lines) ==
    [k \in 1..Len(content_lines) |->
        LineModification(InsertionLine(first_index, k - 1), content_lines[k], FALSE)]

ToolsResult(status, message, modifications) ==
    [status |-> status, message |-> message, modifications |-> modifications]

\* what the body of modify_file computes between File::create and the
\* write: kind is "panic" when Vec::insert or Vec::splice panics
ToolsModified(kind, file_content, modifications) ==
    [kind |-> kind, file_content |-> file_content, modifications |-> modifications]

tools_modify_file_body(old_lines, args) ==
    LET content_lines == SplitNL(args.content)
        first         == saturating_sub(args.start_line, 1)
    IN  IF args.mode = "insert"
        THEN IF first > Len(old_lines)
             THEN ToolsModified("panic", old_lines, <<>>)
             ELSE ToolsModified("written",
                                InsertEach(old_lines, first, content_lines),
                                RecordInsertions(first, content_lines))
        ELSE LET replace_end == saturating_sub(args.end_line[1], 1)
             IN  IF SplicePanics(old_lines, first, replace_end)
                 THEN ToolsModified("panic", old_lines, <<>>)
                 ELSE ToolsModified("written",
                                    Splice(old_lines, first, replace_end, content_lines),
                                    RecordDeletions(old_lines, first, replace_end)
                                        \o RecordInsertions(first, content_lines))

\* ------------------------------------------------------------------------
\* The diff of the ModifyFile arm (src/src/print.rs), TextDiff::from_lines
\* of the `similar` crate: the two texts are cut into lines that keep their
\* terminator ("\n", "\r\n" or a lone "\r"), a longest common subsequence of
\* the two token sequences is marked Equal, every other old token is a Delete
\* and every other new token an Insert, deletions first within a changed run
\* ------------------------------------------------------------------------
RECURSIVE TokenEnd(_, _)
TokenEnd(s, i) ==
    IF i > Len(s) THEN Len(s)
    ELSE IF s[i] = NL THEN i
    ELSE IF s[i] = CR THEN (IF i < Len(s) /\ s[i + 1] = NL THEN i + 1 ELSE i)
    ELSE TokenEnd(s, i + 1)

RECURSIVE tokenize_lines(_)
tokenize_lines(s) ==
    IF s = <<>> THEN <<>>
    ELSE LET e == TokenEnd(s, 1)
         IN  <<SubSeq(s, 1, e)>> \o tokenize_lines(SubSeq(s, e + 1, Len(s)))

RECURSIVE LcsLen(_, _)
LcsLen(a, b) ==
    IF a = <<>> \/ b = <<>> THEN 0
    ELSE IF Head(a) = Head(b) THEN 1 + LcsLen(Tail(a), Tail(b))
    ELSE LET x == LcsLen(Tail(a), b)
             y == LcsLen(a, Tail(b))
         IN  IF x >= y THEN x ELSE y

Change(tag, old_index, new_index, value) ==
    [tag |-> tag, old_index |-> old_index, new_index |-> new_index, value |-> value]

\* the changes of old tokens a (from index i) against new tokens b (from j)
RECURSIVE iter_all_changes(_, _, _, _)
iter_all_changes(a, b, i, j) ==
    IF a = <<>> /\ b = <<>> THEN <<>>
    ELSE IF a # <<>> /\ b # <<>> /\ Head(a) = Head(b)
         THEN <<Change("Equal", Some(i), Some(j), Head(a))>>
                  \o iter_all_changes(Tail(a), Tail(b), i + 1, j + 1)
    ELSE IF a # <<>> /\ (b = <<>> \/ LcsLen(Tail(a), b) >= LcsLen(a, Tail(b)))
         THEN <<Change("Delete", Some(i), None, Head(a))>>
                  \o iter_all_changes(Tail(a), b, i + 1, j)
    ELSE <<Change("Insert", None, Some(j), Head(b))>>
             \o iter_all_changes(a, Tail(b), i, j + 1)

TextDiff_from_lines(old, new) ==
    iter_all_changes(tokenize_lines(old), tokenize_lines(new), 0, 0)

\* str::trim_end: trailing white space goes
RECURSIVE trim_end(_)
trim_end(s) ==
    IF s # <<>> /\ s[Len(s)] \in {NL, CR} THEN trim_end(SubSeq(s, 1, Len(s) - 1)) ELSE s

\* what print_line_content is called with
PrintedLine(line_number, content, is_deletion) ==
    [line |-> line_number, content |-> trim_end(content), is_deletion |-> is_deletion]

print_change(change) ==
    LET is_deletion == change.tag = "Delete"
    IN  PrintedLine(IF is_deletion THEN change.old_index[1] + 1
                                   ELSE change.new_index[1] + 1,
                    change.value, is_deletion)

RECURSIVE print_changes(_)
print_changes(changes) ==
    IF changes = <<>> THEN <<>>
    ELSE IF Head(changes).tag = "Equal" THEN print_changes(Tail(changes))
    ELSE <<print_change(Head(changes))>> \o print_changes(Tail(changes))

\* the diff lines print_function_execution prints for a call and its result
print_function_execution_diff(c, r) ==
    IF r.status = "success" /\ c.function = "ModifyFile" /\ r.variant = "ModifyFile"
    THEN print_changes(TextDiff_from_lines(r.old_contents, r.new_contents))
    ELSE <<>>

\* ------------------------------------------------------------------------
\* State
\* ------------------------------------------------------------------------
VARIABLES
    fs,      \* the file tree under the repository root: path -> content
    pc,      \* where the process is: "awaiting" (blocked in read.next()),
             \* "created" (modify_file has truncated the file, the write is
             \* still to come), "display" (a result is built, the display
             \* step is due), "send" (the reply is due), "returned" (a
             \* direct call on Functions has returned), "terminated",
             \* "panicked"
    call,    \* the FunctionCall being handled
    result,  \* the FunctionResult built for it
    locals,  \* old_contents / new_contents of a modify_file in progress
    sent,    \* replies sent since the last inbound message was taken
    chan,    \* outcome of the last transport event: "ok", "send_failed",
             \* "recv_failed", "closed", and "malformed" for a text
             \* message that decodes into no call
    before,  \* history: the file tree as it was when the call was taken
    shown    \* the diff lines the display step printed for the call

vars == <<fs, pc, call, result, locals, sent, chan, before, shown>>

NoTree == <<>>

FileTrees == UNION {[S -> StringsUpTo(MaxInitLen)] : S \in SUBSET Paths}

\* the `content` arguments tried: text over "a" and line feed
Contents == UNION {[1..k -> {"a", NL}] : k \in 0..MaxContentLen}

LineNumbers == 0..MaxLine

Init ==
    /\ fs \in {t \in FileTrees : DiskUsage(t) <= MaxDisk}
    /\ pc = "awaiting"
    /\ call = NoCall
    /\ result = NoResult
    /\ locals = NoLocals
    /\ sent = 0
    /\ chan = "ok"
    /\ before = NoTree
    /\ shown = <<>>

\* ------------------------------------------------------------------------
\* connect (src/src/socket.rs): one action per kind of inbound event
\* ------------------------------------------------------------------------
\* the decoded call has run to completion: its result goes to the display
Executed(c, out) ==
    /\ DiskUsage(out.fs) <= MaxDisk
    /\ call' = c
    /\ result' = out.result
    /\ fs' = out.fs
    /\ pc' = "display"
    /\ locals' = NoLocals
    /\ sent' = 0
    /\ chan' = "ok"
    /\ before' = fs

RecvGetAllFiles ==
    /\ pc = "awaiting"
    /\ shown' = <<>>
    /\ Executed(Call("GetAllFiles", "socket", "", <<>>, "", 0, None, ""),
                get_all_files(fs))

RecvReadFile ==
    /\ pc = "awaiting"
    /\ shown' = <<>>
    /\ \E p \in Paths :
         Executed(Call("ReadFile", "socket", p, <<>>, "", 0, None, ""), read_file(fs, p))

RecvWriteFile ==
    /\ pc = "awaiting"
    /\ shown' = <<>>
    /\ \E p \in Paths, c \in Contents :
         LET args == Call("WriteFile", "socket", p, c, "", 0, None, "")
         IN  Executed(args, write_file(fs, args))

RecvDeleteFile ==
    /\ pc = "awaiting"
    /\ shown' = <<>>
    /\ \E p \in Paths :
         LET args == Call("DeleteFile", "socket", p, <<>>, "", 0, None, "")
         IN  Executed(args, delete_file(fs, args))

RecvMoveFile ==
    /\ pc = "awaiting"
    /\ shown' = <<>>
    /\ \E p \in Paths, d \in Paths :
         LET args == Call("MoveFile", "socket", p, <<>>, "", 0, None, d)
         IN  Executed(args, move_file(fs, args))

\* modify_file from its entry to the point where File::create has returned
ModifyFileArgs ==
    {Call("ModifyFile", "socket", p, c, "insert", s, None, "") :
        p \in Paths, c \in Contents, s \in LineNumbers}
    \cup
    {Call("ModifyFile", "socket", p, c, "replace", s, e, "") :
        p \in Paths, c \in Contents, s \in LineNumbers,
        e \in {None} \cup {Some(n) : n \in LineNumbers}}

RecvModifyFile ==
    /\ pc = "awaiting"
    /\ shown' = <<>>
    /\ \E args \in ModifyFileArgs :
         LET sp == modify_file_splice(fs, args) IN
         /\ call' = args
         /\ sent' = 0
         /\ chan' = "ok"
         /\ before' = fs
         /\ locals' = sp
         /\ \/ /\ sp.kind = "error"
               /\ result' = Error(sp.message)
               /\ pc' = "display"
               /\ UNCHANGED fs
            \/ /\ sp.kind = "panic"
               /\ pc' = "panicked"
               /\ UNCHANGED <<fs, result>>
            \/ \* File::create fails: `?` returns the error
               /\ sp.kind = "ready"
               /\ result' = Error("File::create failed")
               /\ pc' = "display"
               /\ UNCHANGED fs
            \/ \* File::create succeeds: the file is now empty
               /\ sp.kind = "ready"
               /\ DiskUsage(WriteTo(fs, args.path, sp.new_contents)) <= MaxDisk
               /\ fs' = WriteTo(fs, args.path, <<>>)
               /\ pc' = "created"
               /\ UNCHANGED result

\* write!(file, "{}", new_contents) and the return of modify_file
ModifyFileWrite ==
    /\ pc = "created"
    /\ shown' = <<>>
    /\ \/ /\ fs' = WriteTo(fs, call.path, locals.new_contents)
          /\ result' = SuccessModifyFile(locals.old_contents, locals.new_contents)
       \/ \* the write fails after k characters have reached the file
          \E k \in 0..(Len(locals.new_contents) - 1) :
             /\ fs' = WriteTo(fs, call.path, SubSeq(locals.new_contents, 1, k))
             /\ result' = Error("write failed")
    /\ pc' = "display"
    /\ UNCHANGED <<call, locals, sent, chan, before>>

\* variant: the loop goes on after the message is printed
AfterPrintMessageContinues == "awaiting"

\* println!("{}", message); return Ok(())
AfterPrintMessage == "terminated"

RecvPrintMessage ==
    /\ pc = "awaiting"
    /\ shown' = <<>>
    /\ call' = Call("PrintMessage", "socket", "", <<>>, "", 0, None, "")
    /\ result' = NoResult
    /\ pc' = AfterPrintMessage
    /\ sent' = 0
    /\ chan' = "ok"
    /\ UNCHANGED <<fs, locals, before>>

\* variant: the decode error is propagated out of connect
AfterDecodeErrorReturns == "terminated"

\* the decode error is printed, then `continue`
AfterDecodeError == "awaiting"

\* a text message that serde_json does not decode into a FunctionCall
RecvMalformed ==
    /\ pc = "awaiting"
    /\ shown' = <<>>
    /\ call' = NoCall
    /\ result' = NoResult
    /\ sent' = 0
    /\ chan' = "malformed"
    /\ pc' = AfterDecodeError
    /\ before' = fs
    /\ UNCHANGED <<fs, locals>>

\* Ok(_): a binary, ping, pong or close frame
RecvNonText ==
    /\ pc = "awaiting"
    /\ shown' = <<>>
    /\ call' = NoCall
    /\ result' = NoResult
    /\ sent' = 0
    /\ chan' = "ok"
    /\ UNCHANGED <<fs, pc, locals, before>>

\* Err(e): the error is printed and the loop goes on
RecvError ==
    /\ pc = "awaiting"
    /\ shown' = <<>>
    /\ call' = NoCall
    /\ result' = NoResult
    /\ sent' = 0
    /\ chan' = "recv_failed"
    /\ UNCHANGED <<fs, pc, locals, before>>

\* read.next() yields None: the loop ends and connect returns Ok(())
RecvClosed ==
    /\ pc = "awaiting"
    /\ shown' = <<>>
    /\ call' = NoCall
    /\ result' = NoResult
    /\ sent' = 0
    /\ chan' = "closed"
    /\ pc' = "terminated"
    /\ UNCHANGED <<fs, locals, before>>

\* print_function_execution(FunctionExecution { call, result })
Display ==
    /\ pc = "display"
    /\ pc' = IF print_function_execution_panics(call, result) THEN "panicked" ELSE "send"
    /\ shown' = print_function_execution_diff(call, result)
    /\ UNCHANGED <<fs, call, result, locals, sent, chan, before>>

\* write.send(result_str).await: a failure is printed and the loop goes on;
\* call and result go out of scope at the end of the iteration
Send ==
    /\ pc = "send"
    /\ shown' = <<>>
    /\ \/ sent' = sent + 1 /\ chan' = "ok"
       \/ sent' = sent /\ chan' = "send_failed"
    /\ pc' = "awaiting"
    /\ call' = NoCall
    /\ result' = NoResult
    /\ locals' = NoLocals
    /\ before' = NoTree
    /\ UNCHANGED fs

\* ------------------------------------------------------------------------
\* create_file, which no FunctionCall reaches, called on Functions directly
\* ------------------------------------------------------------------------
DirectCreateFile ==
    /\ pc = "awaiting"
    /\ shown' = <<>>
    /\ \E p \in Paths, c \in Contents :
         LET args == Call("CreateFile", "direct", p, c, "", 0, None, "")
             out  == create_file(fs, args)
         IN  /\ DiskUsage(out.fs) <= MaxDisk
             /\ call' = args
             /\ result' = out.result
             /\ fs' = out.fs
             /\ pc' = "returned"
             /\ before' = fs
             /\ chan' = "ok"
             /\ UNCHANGED <<locals, sent>>

\* the caller drops the result
Return ==
    /\ pc = "returned"
    /\ shown' = <<>>
    /\ pc' = "awaiting"
    /\ call' = NoCall
    /\ result' = NoResult
    /\ before' = NoTree
    /\ UNCHANGED <<fs, locals, sent, chan>>

\* ------------------------------------------------------------------------
\* modify_file of src/src/tools.rs called on Functions directly, from its
\* entry to its return
\* ------------------------------------------------------------------------
ToolsModifyFileArgs ==
    {Call("ModifyFile", "direct", p, c, "insert", s, None, "") :
        p \in Paths, c \in Contents, s \in LineNumbers}
    \cup
    {Call("ModifyFile", "direct", p, c, "replace", s, Some(e), "") :
        p \in Paths, c \in Contents, s \in LineNumbers, e \in LineNumbers}

ToolsModifyFile ==
    /\ pc = "awaiting"
    /\ \E args \in ToolsModifyFileArgs :
         /\ call' = args
         /\ before' = fs
         /\ IF ~Exists(fs, args.path)
            THEN /\ result' = ToolsResult("error", "File does not exist", <<>>)
                 /\ locals' = NoLocals
                 /\ pc' = "returned"
                 /\ UNCHANGED fs
            ELSE LET body == tools_modify_file_body(Lines(fs[args.path]), args)
                     text == Join(body.file_content)
                 IN  /\ locals' = body
                     /\ \/ \* File::create fails: `?` returns the error
                           /\ result' = ToolsResult("error", "File::create failed", <<>>)
                           /\ pc' = "returned"
                           /\ UNCHANGED fs
                        \/ \* the file is truncated, then the body panics
                           /\ body.kind = "panic"
                           /\ fs' = WriteTo(fs, args.path, <<>>)
                           /\ pc' = "panicked"
                           /\ UNCHANGED result
                        \/ /\ body.kind = "written"
                           /\ DiskUsage(WriteTo(fs, args.path, text)) <= MaxDisk
                           /\ \/ /\ fs' = WriteTo(fs, args.path, text)
                                 /\ result' = ToolsResult("success", "", body.modifications)
                              \/ \* the write fails after k characters
                                 \E k \in 0..(Len(text) - 1) :
                                    /\ fs' = WriteTo(fs, args.path, SubSeq(text, 1, k))
                                    /\ result' = ToolsResult("error", "write failed", <<>>)
                           /\ pc' = "returned"
    /\ UNCHANGED <<sent, chan, shown>>

\* the caller drops the list
ToolsReturn ==
    /\ pc = "returned"
    /\ pc' = "awaiting"
    /\ call' = NoCall
    /\ result' = NoResult
    /\ locals' = NoLocals
    /\ before' = NoTree
    /\ UNCHANGED <<fs, sent, chan, shown>>

ToolsNext ==
    \/ ToolsModifyFile
    \/ ToolsReturn

ToolsSpec == Init /\ [][ToolsNext]_vars

Next ==
    \/ RecvGetAllFiles
    \/ RecvReadFile
    \/ RecvWriteFile
    \/ RecvDeleteFile
    \/ RecvMoveFile
    \/ RecvModifyFile
    \/ ModifyFileWrite
    \/ RecvPrintMessage
    \/ RecvMalformed
    \/ RecvNonText
    \/ RecvError
    \/ RecvClosed
    \/ Display
    \/ Send
    \/ DirectCreateFile
    \/ Return

Spec == Init /\ [][Next]_vars

\* ------------------------------------------------------------------------
\* Properties
\* ------------------------------------------------------------------------
ModifyCall == call.function = "ModifyFile"

\* a modify_file call has returned Ok: its result is on display or on its
\* way out
ModifySucceeded == ModifyCall /\ result.status = "success"

\* the target's line sequence when the call was taken
OldLines == Lines(before[call.path])

EndsWithCR(l) == l # <<>> /\ l[Len(l)] = CR

InsertKeepsEveryLine ==
    (ModifyCall /\ call.mode = "insert" /\ Exists(before, call.path)) =>
    LET s == call.start_line
        expected == SubSeq(OldLines, 1, s - 1) \o Lines(call.content)
                        \o SubSeq(OldLines, s, Len(OldLines))
    IN  (1 <= s /\ s <= Len(OldLines) + 1) =>
            /\ pc # "panicked"
            /\ result.status = "success" =>
                  /\ locals.file_lines = expected
                  /\ Len(locals.file_lines) = Len(OldLines) + Len(Lines(call.content))
                  /\ result.new_contents = Join(expected) \o <<NL>>

\* a line appended at start_line = len + 1 to a file that has lines
InsertAppended ==
    /\ ModifySucceeded
    /\ call.mode = "insert"
    /\ Len(OldLines) >= 1
    /\ call.start_line = Len(OldLines) + 1
    /\ call.content = <<"a">>
    /\ result.new_contents = Join(OldLines) \o <<NL, "a", NL>>

\* C3 (as claimed): no start_line or end_line makes a modify_file call on
\* an existing file abort.
LineNumbersNeverAbort ==
    (ModifyCall /\ Exists(before, call.path)) => pc # "panicked"

\* C4: when modify_file has returned Ok, read_file on the path returns the
\* reported new_contents, and read_file on the file tree as it was before
\* the call returns the reported old_contents.
ModifyThenReadRoundTrip ==
    ModifySucceeded =>
        /\ read_file(fs, call.path).result = SuccessReadFile(result.new_contents)
        /\ read_file(before, call.path).result = SuccessReadFile(result.old_contents)

\* a successful modification that changed the file, about to be replied
ModifyChangedFile ==
    /\ ModifySucceeded
    /\ pc = "send"
    /\ result.old_contents # result.new_contents
    /\ Len(result.old_contents) >= 2
    /\ fs[call.path] = result.new_contents

\* C5 (as claimed): from the moment modify_file has spliced the lines, the
\* target file holds either the complete prior content or the complete new
\* content.
ModifyIsAtomicReplacement ==
    (ModifyCall /\ locals.kind = "ready") =>
        fs[call.path] \in {locals.old_contents, locals.new_contents}

\* C6 (as claimed): handling a decoded operation other than PrintMessage
\* never ends the loop or the process.
OperationNeverFatal ==
    (call.via = "socket" /\ call.function # "PrintMessage") =>
        pc \notin {"panicked", "terminated"}

\* C7: a modify_file on a missing path, or in Replace mode without
\* end_line, returns an Error with the file tree as it was: nothing is
\* created and the target keeps its content.
ModifyPreconditionFailureChangesNothing ==
    ModifyCall =>
        /\ ~Exists(before, call.path) =>
              /\ pc \in {"display", "send"}
              /\ result = Error("File does not exist")
              /\ fs = before
        /\ (Exists(before, call.path) /\ call.mode = "replace" /\ call.end_line = None) =>
              /\ pc \in {"display", "send"}
              /\ result = Error("end_line must be provided when using replace mode")
              /\ fs = before

\* Replace without end_line on a file that has content
ReplaceWithoutEndLineRejected ==
    /\ ModifyCall
    /\ pc = "display"
    /\ call.mode = "replace"
    /\ call.end_line = None
    /\ Exists(before, call.path)
    /\ before[call.path] # <<>>
    /\ result.status = "error"

WrittenContentSplitsBack ==
    ModifySucceeded =>
        /\ fs[call.path] = Join(locals.file_lines) \o <<NL>>
        /\ Lines(fs[call.path]) = locals.file_lines

\* C9 (amended): the content written is the resulting line sequence joined
\* by line feeds plus one trailing line feed; it splits back into exactly
\* that sequence when the sequence is not empty and none of its lines ends
\* with a carriage return; for the empty sequence the written content is a
\* single line feed, which splits into one empty line.
WrittenContentSplitsBackUnlessEmptyOrCR ==
    ModifySucceeded =>
    LET R == locals.file_lines IN
        /\ fs[call.path] = Join(R) \o <<NL>>
        /\ (R # <<>> /\ \A i \in 1..Len(R) : ~EndsWithCR(R[i])) =>
              Lines(fs[call.path]) = R
        /\ R = <<>> =>
              /\ fs[call.path] = <<NL>>
              /\ Lines(fs[call.path]) = << <<>> >>

\* two different lines written and read back as they are
TwoLinesSplitBack ==
    /\ ModifySucceeded
    /\ Len(locals.file_lines) >= 2
    /\ locals.file_lines[1] # locals.file_lines[2]
    /\ Lines(fs[call.path]) = locals.file_lines

PrintMessageEndsLoop ==
    [][/\ pc # "terminated"
       /\ call'.function = "PrintMessage" =>
             /\ pc' = "terminated"
             /\ sent' = 0
             /\ result' = NoResult
             /\ fs' = fs]_vars

\* the loop ended by a PrintMessage with files in the tree
TerminatedByPrintMessage ==
    /\ call.function = "PrintMessage"
    /\ pc = "terminated"
    /\ chan = "ok"
    /\ DOMAIN fs # {}

\* C13: after a text message that decodes into no FunctionCall the loop is
\* awaiting the next message, no call was executed, the file tree is as it
\* was and no reply was sent.
MalformedIsDiscarded ==
    chan = "malformed" =>
        /\ pc = "awaiting"
        /\ call = NoCall
        /\ result = NoResult
        /\ fs = before
        /\ sent = 0

\* a malformed message discarded with files in the tree, right after a
\* reply had been sent for the message before it
MalformedDiscarded ==
    /\ chan = "malformed"
    /\ pc = "awaiting"
    /\ DOMAIN fs # {}
    /\ fs = before

\* C14: once a send of a reply or a receive of a message has failed, the
\* loop is over: the next step takes no call from the channel.
TransportFailureEndsLoop ==
    [][(chan = "send_failed" \/ chan = "recv_failed") => call'.via # "socket"]_vars

\* C15: while the loop awaits a message no call is in progress and no write
\* is pending, and every call taken from the channel has its reply sent before
\* the next message is read, so that the n-th reply answers the n-th call.
OneCallAtATimeRepliedInOrder ==
    [][/\ pc = "awaiting" => (call = NoCall /\ locals = NoLocals)
       /\ pc = "send" => (sent = 0 /\ sent' = 1)]_vars

\* C16: the lines the display prints for a successful ModifyFile are lines
\* of old_contents (deletions) and of new_contents (insertions), each under
\* its 1-based position in its line sequence, and no line the two sequences
\* have in common is among them: what is printed is as many deletions and
\* insertions as the two sequences differ by.
DiffShowsOnlyChangedLines ==
    (ModifyCall /\ pc = "send" /\ result.status = "success") =>
        LET old_lines == Lines(result.old_contents)
            new_lines == Lines(result.new_contents)
            common    == LcsLen(old_lines, new_lines)
            IsDel(e)  == e.is_deletion
            IsIns(e)  == ~e.is_deletion
        IN  /\ \A k \in 1..Len(shown) :
                  LET e == shown[k]
                      l == IF e.is_deletion THEN old_lines ELSE new_lines
                  IN  /\ e.line \in 1..Len(l)
                      /\ e.content = trim_end(l[e.line])
            /\ Len(SelectSeq(shown, IsDel)) = Len(old_lines) - common
            /\ Len(SelectSeq(shown, IsIns)) = Len(new_lines) - common

\* the old lines without those the list deletes
RECURSIVE WithoutDeleted(_, _, _)
WithoutDeleted(old_lines, deleted, k) ==
    IF k > Len(old_lines) THEN <<>>
    ELSE (IF k \in deleted THEN <<>> ELSE <<old_lines[k]>>)
             \o WithoutDeleted(old_lines, deleted, k + 1)

\* the insertions of the list put in, one after the other, each at its line
RECURSIVE WithInserted(_, _)
WithInserted(ls, mods) ==
    IF mods = <<>> THEN ls
    ELSE LET m == Head(mods)
         IN  IF m.is_deletion \/ m.line < 1 \/ m.line > Len(ls) + 1
             THEN WithInserted(ls, Tail(mods))
             ELSE WithInserted(SubSeq(ls, 1, m.line - 1) \o <<m.content>>
                                   \o SubSeq(ls, m.line, Len(ls)),
                               Tail(mods))

ToolsReplaced ==
    /\ call.function = "ModifyFile"
    /\ call.via = "direct"
    /\ call.mode = "replace"
    /\ pc = "returned"
    /\ result.status = "success"

\* C17: the list a Replace of tools.rs returns has its deletions before its
\* insertions, every deletion carries the old line at its position, every
\* insertion the new line at its position, and the old lines with the listed
\* deletions taken out and the listed insertions put in are the lines that
\* were written.
ChangeListAccountsForReplace ==
    ToolsReplaced =>
        LET mods      == result.modifications
            old_lines == Lines(before[call.path])
            written   == locals.file_content
            deleted   == {mods[k].line : k \in {j \in 1..Len(mods) : mods[j].is_deletion}}
        IN  /\ \A i, j \in 1..Len(mods) :
                  (i < j /\ mods[j].is_deletion) => mods[i].is_deletion
            /\ \A k \in 1..Len(mods) :
                  LET m == mods[k]
                      l == IF m.is_deletion THEN old_lines ELSE written
                  IN  /\ m.line \in 1..Len(l)
                      /\ m.content = l[m.line]
            /\ Cardinality(deleted) + Len(written)
                  = Len(old_lines) + Len(mods) - Cardinality(deleted)
            /\ WithInserted(WithoutDeleted(old_lines, deleted, 1), mods) = written
            /\ fs[call.path] = Join(written)

\* two of three lines replaced by one
TwoLinesReplacedByOne ==
    /\ ToolsReplaced
    /\ Len(Lines(before[call.path])) = 3
    /\ Len(result.modifications) = 3
    /\ result.modifications[2].is_deletion
    /\ ~result.modifications[3].is_deletion
    /\ Len(locals.file_content) = 2

OnlySuccessfulModifyChangesFile ==
    (ModifyCall /\ call.via = "socket" /\ pc \in {"display", "send", "panicked"}) =>
        IF result.status = "success"
        THEN /\ DOMAIN fs = DOMAIN before
             /\ \A q \in DOMAIN fs : q # call.path => fs[q] = before[q]
        ELSE fs = before

\* C20: whatever call and result reach the display step, the step does not
\* panic, so the reply is due next.
DisplayIsTotal ==
    (pc = "display" /\ call.function \in {"GetAllFiles", "WriteFile", "ReadFile",
                                          "DeleteFile", "ModifyFile", "MoveFile"}) =>
        ~print_function_execution_panics(call, result)

====
